---- MODULE Spec2Model ----
(***************************************************************************)
(* email2html.py: one e-mail message read from stdin is parsed into an     *)
(* EmailPage, saved in an SQLite table, and a static site (one file per    *)
(* recent page plus index.html) is rebuilt.                                *)
(*                                                                         *)
(* Text is modelled as a sequence of lexemes: a lexeme is either one       *)
(* punctuation character ("/", ";", " ", "=", a double quote, ":", "<",    *)
(* ">", "@", ".", "&") or a maximal word without any of them.  The string  *)
(* operations of the source (in, split, partition, replace, strip, lower,  *)
(* re.match) are computed on these sequences.                              *)
(***************************************************************************)
EXTENDS Integers, Sequences, FiniteSets, TLC

VARIABLES
    pc,      \* position of the running operation
    arg,     \* argument of the function applied by a function-level specification
    ret,     \* its result
    store,   \* rows of table page, keyed by id
    store0,  \* the rows the table held when the invocation started
    runs,    \* invocations of the program started so far
    now,     \* the clock, in half seconds since the epoch
    days,    \* SQLitePageRegistry._recent_period_days
    stdin,   \* lines waiting on standard input
    page,    \* local variable page of Application.run
    exc,     \* the exception that left the try block of Application.run, or NoExc
    pages,   \* local variable pages of Application.run / argument of build_site
    files,   \* the output directory: file name -> content
    calls    \* the component calls made by Application.run so far

vars == <<pc, arg, ret, store, store0, runs, now, days, stdin, page, exc, pages, files, calls>>

NoExc == "NoExc"
QUOTE == "\""

----------------------------------------------------------------------------
(* str primitives                                                          *)

\* x in s
Contains(s, x) == \E i \in 1..Len(s) : s[i] = x

\* index of the first x in s (0 when absent)
FirstIndex(s, x) ==
    IF Contains(s, x) THEN CHOOSE i \in 1..Len(s) : s[i] = x /\ \A j \in 1..(i-1) : s[j] # x
    ELSE 0

\* s.partition(x)[0]
PartitionHead(s, x) ==
    IF Contains(s, x) THEN SubSeq(s, 1, FirstIndex(s, x) - 1) ELSE s

\* s.partition(x)[2], also s.split(x, 1)[1] when x is in s
PartitionTail(s, x) ==
    IF Contains(s, x) THEN SubSeq(s, FirstIndex(s, x) + 1, Len(s)) ELSE <<>>

\* number of occurrences of x in s
Count(s, x) == Cardinality({i \in 1..Len(s) : s[i] = x})

\* s.replace(x, '')
RECURSIVE Remove(_, _)
Remove(s, x) ==
    IF s = <<>> THEN <<>>
    ELSE IF Head(s) = x THEN Remove(Tail(s), x)
    ELSE <<Head(s)>> \o Remove(Tail(s), x)

\* one lexeme lowercased
LowerLexeme(w) ==
    CASE w = "TEXT" -> "text"
      [] w = "HTML" -> "html"
      [] w = "Plain" -> "plain"
      [] w = "UTF-8" -> "utf-8"
      [] w = "Latin-1" -> "latin-1"
      [] w = "CHARSET" -> "charset"
      [] w = "U" -> "u"
      [] OTHER -> w

\* s.lower()
Lower(s) == [i \in 1..Len(s) |-> LowerLexeme(s[i])]

\* lexemes that are a single character
SingleChars == {"/", ";", " ", "=", QUOTE, ":", "<", ">", "@", ".", "&", "U", "u", "x"}

----------------------------------------------------------------------------
(* StdinParser.get_content_type_and_charset                                *)

\* re.match(r'charset="([^"])"', s, re.IGNORECASE): the captured group, or <<>>
\* when the pattern does not match at the start of s
CharsetMatch(s) ==
    IF /\ Len(s) >= 5
       /\ LowerLexeme(s[1]) = "charset"
       /\ s[2] = "="
       /\ s[3] = QUOTE
       /\ s[4] \in SingleChars /\ s[4] # QUOTE
       /\ s[5] = QUOTE
    THEN <<s[4]>>
    ELSE <<>>

\* returns [exc, content_type, charset]; exc is the exception raised, if any
get_content_type_and_charset(h) ==
    LET hasSemi   == Contains(h, ";")
        full_type == IF hasSemi THEN PartitionHead(h, ";") ELSE <<"text", "/", "plain">>
        params    == IF hasSemi THEN PartitionTail(h, ";") ELSE <<"charset", "=", "utf-8">>
        match     == CharsetMatch(params)
        charset   == IF match # <<>> THEN match ELSE <<"utf-8">>
    IN  IF Count(full_type, "/") # 1
        THEN [exc |-> "ValueError", content_type |-> <<>>, charset |-> <<>>]
        ELSE LET type    == PartitionHead(full_type, "/")
                 subtype == PartitionTail(full_type, "/")
                 content_type == IF type = <<"text">> THEN subtype ELSE <<"binary">>
             IN  [exc |-> NoExc, content_type |-> Lower(content_type), charset |-> Lower(charset)]

----------------------------------------------------------------------------
(* Content-Type headers given to get_content_type_and_charset              *)

MaxHeaderLen == 3

MediaTypes == {<<"text">>, <<"TEXT">>, <<"image">>}
Subtypes == {<<"plain">>, <<"html">>, <<"HTML">>, <<"calendar">>, <<"png">>}
CharsetNames == {"utf-8", "UTF-8", "Latin-1", "U"}

\* "; charset=X", "; charset="X"", ";charset="X"", ";CHARSET="X""
CharsetParams(X) ==
    { <<" ", "charset", "=", X>>,
      <<" ", "charset", "=", QUOTE, X, QUOTE>>,
      <<"charset", "=", QUOTE, X, QUOTE>>,
      <<"CHARSET", "=", QUOTE, X, QUOTE>> }

\* "<type>/<subtype>; charset=<X>"
DeclaredForm(t, s, X) == t \o <<"/">> \o s \o <<";", " ", "charset", "=", X>>

ShortAlphabet == {"text", "plain", "/", ";", " "}

ShortHeaders == UNION { [1..n -> ShortAlphabet] : n \in 0..MaxHeaderLen }

ContentTypeHeaders ==
    { t \o <<"/">> \o s \o <<";">> \o p :
        t \in MediaTypes, s \in Subtypes, p \in UNION { CharsetParams(X) : X \in CharsetNames } }
    \cup { t \o <<"/">> \o s : t \in MediaTypes, s \in Subtypes }
    \cup ShortHeaders

----------------------------------------------------------------------------
(* Values of the variables an operation does not use                       *)

Idle ==
    /\ store = {} /\ store0 = {} /\ runs = 0 /\ now = 0 /\ days = 0 /\ stdin = <<>> /\ page = <<>>
    /\ exc = NoExc /\ pages = <<>> /\ files = <<>> /\ calls = <<>>

----------------------------------------------------------------------------
(* SpecHeader: get_content_type_and_charset applied to one header          *)

InitHeader ==
    /\ pc = "call"
    /\ arg \in ContentTypeHeaders
    /\ ret = <<>>
    /\ Idle

DeriveContentType ==
    /\ pc = "call"
    /\ ret' = get_content_type_and_charset(arg)
    /\ pc' = "return"
    /\ UNCHANGED <<arg, store, store0, runs, now, days, stdin, page, exc, pages, files, calls>>

NextHeader == DeriveContentType

SpecHeader == InitHeader /\ [][NextHeader]_vars

ContentKinds == {<<"html">>, <<"plain">>, <<"binary">>}

\* C5: for every header "<type>/<subtype>; charset=<X>" (type text) the
\* derivation returns the subtype and the declared charset X, lowercased.
C5_DeclaredCharsetReturned ==
    \A s \in Subtypes, X \in CharsetNames :
        (pc = "return" /\ arg = DeclaredForm(<<"text">>, s, X))
            => /\ ret.exc = NoExc
               /\ ret.content_type = Lower(s)
               /\ ret.charset = <<LowerLexeme(X)>>

\* C6: for every header the derivation raises nothing and returns a content
\* kind in {html, plain, binary}.
C6_NeverRaisesClosedKind ==
    pc = "return" => (ret.exc = NoExc /\ ret.content_type \in ContentKinds)

----------------------------------------------------------------------------
(* StdinParser.is_a_header_line and the leading-line skip of get_page      *)

is_a_header_line(line) == ~Contains(PartitionHead(line, ":"), " ")

\* lines 65-69: lines[0] of an empty list raises IndexError, before the loop
\* (line 66) and in its condition once every line was popped (line 67)
RECURSIVE SkipLeadingLines(_)
SkipLeadingLines(lines) ==
    IF lines = <<>> THEN [exc |-> "IndexError", lines |-> <<>>]
    ELSE IF is_a_header_line(Head(lines)) THEN [exc |-> NoExc, lines |-> lines]
    ELSE SkipLeadingLines(Tail(lines))

MaxLines == 3

EnvelopeLine == <<"From", " ", "nobody", " ", "12", ":", "00">>
SubjectLine == <<"Subject", ":", " ", "Hello">>

SampleLines ==
    { EnvelopeLine, SubjectLine,
      <<"garbage">>, <<>>, <<"two", " ", "words">>,
      <<"a", " ", "b", ":", " ", "c">>, <<"X", ":", "y", " ", "z">> }

LineLists == UNION { [1..n -> SampleLines] : n \in 0..MaxLines }

InitSkip ==
    /\ pc = "call"
    /\ arg \in LineLists
    /\ ret = <<>>
    /\ Idle

SkipLines ==
    /\ pc = "call"
    /\ ret' = SkipLeadingLines(arg)
    /\ pc' = "return"
    /\ UNCHANGED <<arg, store, store0, runs, now, days, stdin, page, exc, pages, files, calls>>

NextSkip == SkipLines

SpecSkip == InitSkip /\ [][NextSkip]_vars

\* a line with a colon whose text before the colon holds no space
GenuineHeaderLine(line) == Contains(line, ":") /\ ~Contains(PartitionHead(line, ":"), " ")

\* C9: when the input holds a genuine header line, the skip stops with the
\* first such line at the head of the remaining lines, having removed exactly
\* the lines before it.
C9_StopsAtFirstGenuineHeader ==
    (pc = "return" /\ \E i \in 1..Len(arg) : GenuineHeaderLine(arg[i]))
        => LET first == CHOOSE i \in 1..Len(arg) :
                            /\ GenuineHeaderLine(arg[i])
                            /\ \A j \in 1..(i-1) : ~GenuineHeaderLine(arg[j])
           IN  ret.exc = NoExc /\ ret.lines = SubSeq(arg, first, Len(arg))

----------------------------------------------------------------------------
(* Time.  The clock and datetime values are counted in ticks, several to   *)
(* the second, since the epoch; message_timestamp is in whole seconds.     *)

TicksPerSecond == 2
SecondsPerDay == 86400

\* int(d.timestamp()): the fraction is dropped, rounding toward zero
IntTimestamp(d) ==
    IF d >= 0 THEN d \div TicksPerSecond ELSE -((-d) \div TicksPerSecond)

\* datetime.fromtimestamp(ts)
FromTimestamp(ts) == ts * TicksPerSecond

\* the earliest instant the clock shows: 6 Jun 1986 00:00:00 UTC, in seconds
\* (ticks of later instants do not fit the integers of the model checker)
ClockStart == 6000 * SecondsPerDay

MaxTicks == 2
MaxDays == 2

ClockValues == { ClockStart * TicksPerSecond + k : k \in 0..MaxTicks }
DaysOptions == 0..MaxDays

----------------------------------------------------------------------------
(* SQLitePageRegistry.get_recent_pages                                     *)

\* pickle.dumps / pickle.loads of the headers list
PickleDumps(h) == [pickle |-> h]
PickleLoads(b) == b.pickle

\* WHERE message_timestamp >= ?  (the boundary row let through)
RecentRowsInclusive(rows, oldest_ts) == { r \in rows : r.message_timestamp >= oldest_ts }

\* WHERE message_timestamp > ?
RecentRows(rows, oldest_ts) == { r \in rows : r.message_timestamp > oldest_ts }

\* ORDER BY message_timestamp DESC: every order of the rows that descends
\* (rows with equal timestamps come in either order)
OrderedDesc(rows) ==
    { s \in [1..Cardinality(rows) -> rows] :
        /\ \A i, j \in 1..Cardinality(rows) : i # j => s[i] # s[j]
        /\ \A i, j \in 1..Cardinality(rows) :
              i < j => s[i].message_timestamp >= s[j].message_timestamp }

\* lines 209-217: the EmailPage built from one row
PageOfRow(row) ==
    [ id |-> row.id,
      date |-> FromTimestamp(row.message_timestamp),
      sender |-> row.sender,
      subject |-> row.subject,
      content_type |-> row.content_type,
      headers |-> PickleLoads(row.headers),
      text |-> row.body ]

\* the lists list(get_recent_pages()) can be, with the clock at n
get_recent_pages(rows, n, d) ==
    LET last_datetime == n - d * SecondsPerDay * TicksPerSecond
        oldest_ts     == IntTimestamp(last_datetime)
    IN  { [i \in 1..Len(s) |-> PageOfRow(s[i])] : s \in OrderedDesc(RecentRows(rows, oldest_ts)) }

----------------------------------------------------------------------------
(* SpecRecent: get_recent_pages on a table of up to three rows             *)

SampleIds == { <<"a">>, <<"b">>, <<"c">> }

SampleTimestamps ==
    { ClockStart - d * SecondsPerDay + j : d \in DaysOptions, j \in {-1, 0, 1} }

SampleRow(id, ts) ==
    [ id |-> id,
      message_timestamp |-> ts,
      sender |-> <<"Alice", " ", "<", "a@x.com", ">">>,
      subject |-> <<"Hello">>,
      content_type |-> <<"plain">>,
      headers |-> PickleDumps(<<>>),
      body |-> <<"Hi there">> ]

\* tables whose rows have pairwise distinct ids (id is the primary key)
SampleStores ==
    UNION { { { SampleRow(id, f[id]) : id \in ids } : f \in [ids -> SampleTimestamps] } :
            ids \in SUBSET SampleIds }

InitRecent ==
    /\ pc = "call"
    /\ store \in SampleStores
    /\ store0 = store
    /\ now \in ClockValues
    /\ days \in DaysOptions
    /\ pages = <<>>
    /\ arg = <<>> /\ ret = <<>> /\ runs = 0 /\ stdin = <<>> /\ page = <<>>
    /\ exc = NoExc /\ files = <<>> /\ calls = <<>>

QueryRecent ==
    /\ pc = "call"
    /\ pages' \in get_recent_pages(store, now, days)
    /\ pc' = "return"
    /\ UNCHANGED <<arg, ret, store, store0, runs, now, days, stdin, page, exc, files, calls>>

NextRecent == QueryRecent

SpecRecent == InitRecent /\ [][NextRecent]_vars

\* the row's timestamp is strictly later than now - window
InWindow(row) ==
    row.message_timestamp * TicksPerSecond > now - days * SecondsPerDay * TicksPerSecond

AtBoundary(row) ==
    row.message_timestamp * TicksPerSecond = now - days * SecondsPerDay * TicksPerSecond

\* C4: get_recent_pages returns exactly the stored records whose timestamp
\* is strictly greater than now - window, each once and as stored, in
\* descending timestamp order.
C4_RecentExactlyInWindowDescending ==
    pc = "return" =>
        /\ { pages[i].id : i \in 1..Len(pages) } = { r.id : r \in { x \in store : InWindow(x) } }
        /\ Len(pages) = Cardinality({ x \in store : InWindow(x) })
        /\ \A i \in 1..Len(pages) : \E r \in store : pages[i] = PageOfRow(r)
        /\ \A i, j \in 1..Len(pages) : i < j => pages[i].date >= pages[j].date

\* a row exactly at the boundary was left out while two rows of different
\* age were returned
C4_Witness ==
    /\ pc = "return"
    /\ \E r \in store : AtBoundary(r) /\ \A i \in 1..Len(pages) : pages[i].id # r.id
    /\ Len(pages) = 2
    /\ pages[1].date > pages[2].date

----------------------------------------------------------------------------
(* StaticHtmlSiteBuilder.  Ids and file names are sequences of characters. *)

HtmlSuffix == <<".", "h", "t", "m", "l">>
IndexFilename == <<"i", "n", "d", "e", "x">> \o HtmlSuffix

\* line 155: page.id.replace('@', '').replace('.', '') + '.html'
Filename(id) == Remove(Remove(id, "@"), ".") \o HtmlSuffix

\* html.escape of one lexeme
EscapeLexeme(w) ==
    CASE w = "&" -> "&amp;"
      [] w = "<" -> "&lt;"
      [] w = ">" -> "&gt;"
      [] w = QUOTE -> "&quot;"
      [] w = "'" -> "&#x27;"
      [] OTHER -> w

\* html.escape(s)
html_escape(s) == [i \in 1..Len(s) |-> EscapeLexeme(s[i])]

\* s.lstrip(chars), s.rstrip(chars), s.strip(chars)
RECURSIVE LStrip(_, _)
LStrip(s, chars) == IF s # <<>> /\ Head(s) \in chars THEN LStrip(Tail(s), chars) ELSE s

RECURSIVE RStrip(_, _)
RStrip(s, chars) ==
    IF s # <<>> /\ s[Len(s)] \in chars THEN RStrip(SubSeq(s, 1, Len(s) - 1), chars) ELSE s

Strip(s, chars) == RStrip(LStrip(s, chars), chars)

\* lines 150-152
get_sender(p) == Strip(html_escape(PartitionHead(p.sender, "<")), {" "})

\* open(name, 'w') and the writes: the file is created or replaced
WriteFile(fs, name, content) ==
    [ x \in (DOMAIN fs) \cup {name} |-> IF x = name THEN content ELSE fs[x] ]

\* lines 154-161: the file of one page, text first, the headers in a comment
save_page_to_a_file(fs, p) ==
    WriteFile(fs, Filename(p.id), [kind |-> "page", text |-> p.text, headers |-> p.headers])

\* lines 135-139: the list item of one page
IndexItem(p) ==
    [ href |-> <<".", "/">> \o Filename(p.id),
      title |-> html_escape(p.subject),
      sender |-> get_sender(p),
      date |-> p.date ]

\* the item put in front of the list instead of at its end
PrependIndexLine(index_lines, item) == <<item>> \o index_lines

\* line 135: index_lines.append(...)
AppendIndexLine(index_lines, item) == Append(index_lines, item)

\* lines 132-140: the loop over the pages; gives the files and the items
RECURSIVE BuildLoop(_, _, _)
BuildLoop(ps, fs, index_lines) ==
    IF ps = <<>> THEN [files |-> fs, index_lines |-> index_lines]
    ELSE BuildLoop(Tail(ps),
                   save_page_to_a_file(fs, Head(ps)),
                   AppendIndexLine(index_lines, IndexItem(Head(ps))))

\* lines 115-148: the output directory after build_site(ps)
build_site(fs, ps) ==
    LET done == BuildLoop(ps, fs, <<>>)
    IN  WriteFile(done.files, IndexFilename, [kind |-> "index", items |-> done.index_lines])

----------------------------------------------------------------------------
(* SpecSite: build_site on a list of up to MaxPages pages                  *)

MaxPages == 3

SamplePage(id, subject, text) ==
    [ id |-> id,
      date |-> FromTimestamp(ClockStart),
      sender |-> <<"Alice", " ", "<", "a@x.com", ">">>,
      subject |-> subject,
      content_type |-> <<"plain">>,
      headers |-> <<>>,
      text |-> text ]

SamplePages ==
    { SamplePage(<<"a", "@", "b">>, <<"Hello">>, <<"Hi there">>),
      SamplePage(<<"a", ".", "b">>, <<"News">>, <<"Other text">>),
      SamplePage(<<"a", "@", "c">>, <<"<", "script", ">">>, <<"Third text">>),
      SamplePage(<<"i", "n", "d", "e", "x">>, <<"Index">>, <<"Fourth text">>) }

PageLists == UNION { [1..n -> SamplePages] : n \in 0..MaxPages }

InitSite ==
    /\ pc = "call"
    /\ pages \in PageLists
    /\ files = <<>>
    /\ arg = <<>> /\ ret = <<>> /\ store = {} /\ store0 = {} /\ runs = 0 /\ now = 0
    /\ days = 0 /\ stdin = <<>> /\ page = <<>> /\ exc = NoExc /\ calls = <<>>

BuildSiteOnly ==
    /\ pc = "call"
    /\ files' = build_site(files, pages)
    /\ pc' = "return"
    /\ UNCHANGED <<arg, ret, store, store0, runs, now, days, stdin, page, exc, pages, calls>>

NextSite == BuildSiteOnly

SpecSite == InitSite /\ [][NextSite]_vars

DistinctIds(ps) == \A i, j \in 1..Len(ps) : i # j => ps[i].id # ps[j].id

\* C8: index.html holds one list item per given record, the i-th item being
\* the one of the i-th record (its link, its escaped subject, its date).
C8_IndexMirrorsInput ==
    pc = "return" =>
        LET items == files[IndexFilename].items
        IN  /\ files[IndexFilename].kind = "index"
            /\ Len(items) = Len(pages)
            /\ \A i \in 1..Len(pages) :
                  /\ items[i].href = <<".", "/">> \o Filename(pages[i].id)
                  /\ items[i].title = html_escape(pages[i].subject)
                  /\ items[i].date = pages[i].date

\* three records with different ids were rendered
C8_Witness ==
    /\ pc = "return"
    /\ Len(pages) = 3
    /\ DistinctIds(pages)
    /\ Len(files[IndexFilename].items) = 3
    /\ files[IndexFilename].items[1].title # files[IndexFilename].items[3].title

\* C10: for records with pairwise distinct ids the directory holds one file
\* per record plus the index, and each record's file holds that record.
C10_OneFilePerRecord ==
    (pc = "return" /\ DistinctIds(pages)) =>
        /\ Cardinality(DOMAIN files) = Len(pages) + 1
        /\ \A i \in 1..Len(pages) :
              /\ Filename(pages[i].id) # IndexFilename
              /\ files[Filename(pages[i].id)].kind = "page"
              /\ files[Filename(pages[i].id)].text = pages[i].text

----------------------------------------------------------------------------
(* email.message_from_string with policy.default, as far as get_page uses  *)
(* it, for messages of a single part                                       *)

\* the header block: the leading lines "name: value" with no space in name
RECURSIVE HeaderBlockLen(_)
HeaderBlockLen(lines) ==
    IF lines # <<>> /\ Contains(Head(lines), ":") /\ ~Contains(PartitionHead(Head(lines), ":"), " ")
    THEN 1 + HeaderBlockLen(Tail(lines))
    ELSE 0

\* ''.join of the lines, each ending in a line feed
RECURSIVE JoinLines(_)
JoinLines(lines) ==
    IF lines = <<>> THEN <<>> ELSE Head(lines) \o <<"\n">> \o JoinLines(Tail(lines))

\* the parsed message: its (name, value) pairs and its payload
message_from_string(lines) ==
    LET n    == HeaderBlockLen(lines)
        rest == SubSeq(lines, n + 1, Len(lines))
        body == IF rest # <<>> /\ Head(rest) = <<>> THEN Tail(rest) ELSE rest
    IN  [ headers |-> [ i \in 1..n |->
                          [ name  |-> PartitionHead(lines[i], ":"),
                            value |-> LStrip(PartitionTail(lines[i], ":"), {" "}) ] ],
          payload |-> JoinLines(body) ]

HasHeader(msg, name) == \E i \in 1..Len(msg.headers) : msg.headers[i].name = <<name>>

\* msg[name] when the header is there: the value of the first one
HeaderValue(msg, name) ==
    msg.headers[CHOOSE i \in 1..Len(msg.headers) :
                    /\ msg.headers[i].name = <<name>>
                    /\ \A j \in 1..(i-1) : msg.headers[j].name # <<name>>].value

\* the string of a Content-Type header: a parameter value comes back quoted
RECURSIVE QuoteParameters(_)
QuoteParameters(s) ==
    IF s = <<>> THEN <<>>
    ELSE IF Head(s) = "=" /\ Len(s) >= 2 /\ s[2] # QUOTE
         THEN <<"=", QUOTE, s[2], QUOTE>> \o QuoteParameters(SubSeq(s, 3, Len(s)))
         ELSE <<Head(s)>> \o QuoteParameters(Tail(s))

\* msg.get_content_type(): text/plain unless the header names type/subtype
LibContentType(msg) ==
    IF ~HasHeader(msg, "Content-Type") THEN <<"text", "plain">>
    ELSE LET full == Strip(PartitionHead(HeaderValue(msg, "Content-Type"), ";"), {" "})
         IN  IF Len(full) = 3 /\ full[2] = "/" /\ full[1] # "/" /\ full[3] # "/"
             THEN <<LowerLexeme(full[1]), LowerLexeme(full[3])>>
             ELSE <<"text", "plain">>

\* the charset parameter get_content() decodes with
LibCharset(msg) ==
    IF ~HasHeader(msg, "Content-Type") THEN "us-ascii"
    ELSE LET ps == PartitionTail(HeaderValue(msg, "Content-Type"), ";")
             at == { i \in 1..Len(ps) :
                       /\ LowerLexeme(ps[i]) = "charset" /\ i + 2 <= Len(ps) /\ ps[i+1] = "="
                       /\ (ps[i+2] = QUOTE => i + 3 <= Len(ps)) }
         IN  IF at = {} THEN "us-ascii"
             ELSE LET i == CHOOSE k \in at : \A m \in at : k <= m
                  IN  LowerLexeme(IF ps[i+2] = QUOTE THEN ps[i+3] ELSE ps[i+2])

KnownCharsets == {"utf-8", "latin-1", "us-ascii"}

\* email.utils.parsedate_to_datetime: the instant, in seconds; -1 stands for
\* the ValueError of a value that is no date
parsedate_to_datetime(v) ==
    CASE v = <<"Fri, 6 Jun 1986 00:00:00 +0000">> -> 6000 * SecondsPerDay
      [] v = <<"Thu, 5 Jun 1986 00:00:00 +0000">> -> 5999 * SecondsPerDay
      [] v = <<"Wed, 4 Jun 1986 00:00:00 +0000">> -> 5998 * SecondsPerDay
      [] OTHER -> -1

----------------------------------------------------------------------------
(* StdinParser.get_page                                                    *)

NoPage == [id |-> <<>>]

Raised(e) == [exc |-> e, page |-> NoPage]

DefaultContentType == <<"text", "/", "plain", ";", " ", "charset", "=", "UTF-8">>

\* lines 63-85, with the clock at n: [exc, page]
get_page(lines, n) ==
    LET skipped == SkipLeadingLines(lines)
        msg     == message_from_string(skipped.lines)
        hasDate == HasHeader(msg, "Date") /\ HeaderValue(msg, "Date") # <<>>
        body_encoding ==
            IF HasHeader(msg, "Content-Type")
            THEN QuoteParameters(HeaderValue(msg, "Content-Type"))
            ELSE DefaultContentType
        derived == get_content_type_and_charset(body_encoding)
    IN  IF skipped.exc # NoExc THEN Raised(skipped.exc)
        ELSE IF hasDate /\ parsedate_to_datetime(HeaderValue(msg, "Date")) < 0
             THEN Raised("ValueError")
        ELSE IF ~HasHeader(msg, "Message-ID") THEN Raised("AttributeError")
        ELSE IF LibContentType(msg) \notin {<<"text", "html">>, <<"text", "plain">>}
             THEN Raised("AttributeError")
        ELSE IF LibCharset(msg) \notin KnownCharsets THEN Raised("LookupError")
        ELSE IF derived.exc # NoExc THEN Raised(derived.exc)
        ELSE [ exc |-> NoExc,
               page |->
                 [ id |-> Strip(HeaderValue(msg, "Message-ID"), {"<", ">"}),
                   date |-> IF hasDate
                            THEN parsedate_to_datetime(HeaderValue(msg, "Date")) * TicksPerSecond
                            ELSE n,
                   sender |-> IF HasHeader(msg, "From") THEN HeaderValue(msg, "From")
                              ELSE <<"None">>,
                   subject |-> IF HasHeader(msg, "Subject") THEN HeaderValue(msg, "Subject")
                               ELSE <<"None">>,
                   content_type |-> derived.content_type,
                   headers |-> msg.headers,
                   text |-> msg.payload ] ]

----------------------------------------------------------------------------
(* SQLitePageRegistry.save_page                                            *)

TableColumns ==
    <<"id", "message_timestamp", "sender", "subject", "content_type", "headers", "body">>

\* line 189: INSERT INTO page(...)
InsertColumns == <<"id", "message_timestamp", "sender", "subject", "content_type", "body">>

\* line 190: VALUES(...)
InsertValues ==
    <<"id", "message_timestamp", "sender", "subject", "content_type", "headers", "body">>

NULL == [null |-> TRUE]

\* lines 191-198: the parameters bound to the statement
InsertParameters(p) ==
    [ id |-> p.id,
      message_timestamp |-> IntTimestamp(p.date),
      sender |-> p.sender,
      subject |-> p.subject,
      content_type |-> p.content_type,
      headers |-> PickleDumps(p.headers),
      body |-> p.text ]

\* the row the statement inserts: each named column takes the value at its
\* place in the VALUES list, the columns not named are NULL
InsertedRow(params) ==
    [ c \in { TableColumns[i] : i \in 1..Len(TableColumns) } |->
        IF Contains(InsertColumns, c)
        THEN params[InsertValues[FirstIndex(InsertColumns, c)]]
        ELSE NULL ]

\* connection.execute of the INSERT: [exc, rows]
ExecuteInsert(rows, params) ==
    IF Len(InsertColumns) # Len(InsertValues)
    THEN [exc |-> "OperationalError", rows |-> rows]
    ELSE IF \E r \in rows : r.id = params.id
    THEN [exc |-> "IntegrityError", rows |-> rows]
    ELSE [exc |-> NoExc, rows |-> rows \cup {InsertedRow(params)}]

\* lines 184-201: IntegrityError is logged and dropped, any other error
\* rolls the transaction back and leaves save_page
save_page(rows, p) ==
    LET done == ExecuteInsert(rows, InsertParameters(p))
    IN  IF done.exc = "IntegrityError" THEN [exc |-> NoExc, rows |-> rows]
        ELSE done

----------------------------------------------------------------------------
(* Messages on standard input                                              *)

Line(name, value) == <<name, ":", " ">> \o value

LeadOptions == { <<>>, <<EnvelopeLine>>, << <<"garbage">> >>, << <<>> >> }

SampleMessageIds == { <<"a", "@", "b">>, <<"a", "@", "c">> }

MessageIdLine(id) == Line("Message-ID", <<"<">> \o id \o <<">">>)

MessageIdOptions == { <<>> } \cup { << MessageIdLine(id) >> : id \in SampleMessageIds }

GoodDates ==
    { <<"Fri, 6 Jun 1986 00:00:00 +0000">>, <<"Thu, 5 Jun 1986 00:00:00 +0000">> }

DateOptions ==
    { <<>>, << Line("Date", <<"not a date">>) >> } \cup { << Line("Date", d) >> : d \in GoodDates }

PlainUtf8 == <<"text", "/", "plain", ";", " ", "charset", "=", "utf-8">>

ContentTypeOptions ==
    { <<>>,
      << Line("Content-Type", PlainUtf8) >>,
      << Line("Content-Type", <<"TEXT", "/", "HTML", ";", " ", "charset", "=", "UTF-8">>) >>,
      << Line("Content-Type", <<"image", "/", "png">>) >>,
      << Line("Content-Type", <<"garbage", ";", " ", "x">>) >> }

FromLine == Line("From", <<"Alice", " ", "<", "a@x.com", ">">>)
SubjectHello == Line("Subject", <<"Hello">>)
BodyLines == << <<"Hi there">> >>

\* lead lines, the header block, the empty line, the body
Message(lead, id, date, ctype) ==
    lead \o id \o <<SubjectHello, FromLine>> \o date \o ctype \o << <<>> >> \o BodyLines

StdinOptions ==
    { Message(l, i, d, c) :
        l \in LeadOptions, i \in MessageIdOptions, d \in DateOptions, c \in ContentTypeOptions }
    \cup { <<>>, << <<"two", " ", "words">> >> }

\* the table a run finds in the database file: empty, or holding rows
\* already (every column set, the headers pickled)
StoredRow(id, ts, text) ==
    [ id |-> id,
      message_timestamp |-> ts,
      sender |-> <<"Bob", " ", "<", "b@x.com", ">">>,
      subject |-> <<"Earlier">>,
      content_type |-> <<"plain">>,
      headers |-> PickleDumps(<<>>),
      body |-> text ]

InitialStores ==
    { {},
      { StoredRow(<<"a", "@", "b">>, ClockStart - 1, <<"Old text">>) },
      { StoredRow(<<"a", "@", "b">>, ClockStart - 1, <<"Old text">>),
        StoredRow(<<"d", "@", "e">>, ClockStart - SecondsPerDay, <<"Older text">>) } }

----------------------------------------------------------------------------
(* Application.run                                                         *)

MaxRuns == 2

Exceptions ==
    { "IndexError", "ValueError", "AttributeError", "LookupError",
      "OperationalError", "IntegrityError", "TypeError" }

\* an except clause naming only sqlite3.IntegrityError
CaughtIfIntegrityError(e) == e = "IntegrityError"

\* line 233: except Exception
CaughtByRun(e) == e \in Exceptions

Init ==
    /\ pc = "get_page"
    /\ store \in InitialStores
    /\ store0 = store
    /\ runs = 1
    /\ now \in ClockValues
    /\ days \in DaysOptions
    /\ stdin \in StdinOptions
    /\ page = NoPage
    /\ exc = NoExc
    /\ pages = <<>>
    /\ files = <<>>
    /\ calls = <<>>
    /\ arg = <<>> /\ ret = <<>>

\* line 231
GetPage ==
    /\ pc = "get_page"
    /\ LET r == get_page(stdin, now)
       IN  /\ page' = r.page
           /\ exc' = r.exc
           /\ pc' = IF r.exc = NoExc THEN "save_page" ELSE "except"
    /\ calls' = Append(calls, "get_page")
    /\ UNCHANGED <<arg, ret, store, store0, runs, now, days, stdin, pages, files>>

\* line 232
SavePage ==
    /\ pc = "save_page"
    /\ LET r == save_page(store, page)
       IN  /\ store' = r.rows
           /\ exc' = r.exc
           /\ pc' = IF r.exc = NoExc THEN "get_recent_pages" ELSE "except"
    /\ calls' = Append(calls, "save_page")
    /\ UNCHANGED <<arg, ret, store0, runs, now, days, stdin, page, pages, files>>

\* lines 233-235: the error is logged and the run goes on; an exception the
\* clause does not catch ends the process
Except ==
    /\ pc = "except"
    /\ pc' = IF CaughtByRun(exc) THEN "get_recent_pages" ELSE "crashed"
    /\ UNCHANGED <<arg, ret, store, store0, runs, now, days, stdin, page, exc, pages, files, calls>>

\* line 236
GetRecentPages ==
    /\ pc = "get_recent_pages"
    /\ pages' \in get_recent_pages(store, now, days)
    /\ calls' = Append(calls, "get_recent_pages")
    /\ pc' = "build_site"
    /\ UNCHANGED <<arg, ret, store, store0, runs, now, days, stdin, page, exc, files>>

\* line 237
BuildSite ==
    /\ pc = "build_site"
    /\ files' = build_site(files, pages)
    /\ calls' = Append(calls, "build_site")
    /\ pc' = "done"
    /\ UNCHANGED <<arg, ret, store, store0, runs, now, days, stdin, page, exc, pages>>

\* time passes
Tick ==
    /\ now < ClockStart * TicksPerSecond + MaxTicks
    /\ now' = now + 1
    /\ UNCHANGED <<pc, arg, ret, store, store0, runs, days, stdin, page, exc, pages, files, calls>>

\* the program is started again, on the same database and output directory
NewRun ==
    /\ pc = "done"
    /\ runs < MaxRuns
    /\ runs' = runs + 1
    /\ stdin' \in StdinOptions
    /\ store0' = store
    /\ page' = NoPage
    /\ exc' = NoExc
    /\ pages' = <<>>
    /\ calls' = <<>>
    /\ pc' = "get_page"
    /\ UNCHANGED <<arg, ret, store, now, days, files>>

Next ==
    \/ GetPage
    \/ SavePage
    \/ Except
    \/ GetRecentPages
    \/ BuildSite
    \/ Tick
    \/ NewRun

Spec == Init /\ [][Next]_vars

----------------------------------------------------------------------------
(* Properties of Application.run                                           *)

Last(s) == s[Len(s)]

IsPrefix(s, t) == Len(s) <= Len(t) /\ s = SubSeq(t, 1, Len(s))

\* Message-ID, From, Subject, Date and a text/plain body, nothing before them
WellFormedMessage(id, d) ==
    Message(<<>>, << MessageIdLine(id) >>, << Line("Date", d) >>,
            << Line("Content-Type", PlainUtf8) >>)

\* C1: save_page raises nothing; a record with a new id is stored as given,
\* a record whose id is already stored leaves the table as it was.
C1_SaveNeverRaisesFirstWriteWins ==
    (calls # <<>> /\ Last(calls) = "save_page") =>
        /\ exc = NoExc
        /\ IF \E r \in store0 : r.id = page.id
           THEN store = store0
           ELSE /\ \E r \in store :
                     /\ r.id = page.id
                     /\ r.message_timestamp = IntTimestamp(page.date)
                     /\ r.body = page.text
                /\ Cardinality(store) = Cardinality(store0) + 1

\* C2: no failure of get_page or save_page ends the run; the calls are made
\* in the order parse, save, query-recent, render, and a finished run has
\* called get_recent_pages and build_site once each and has written an
\* index.html listing rows of the table.
C2_FailedIngestStillRenders ==
    /\ pc # "crashed"
    /\ \/ IsPrefix(calls, <<"get_page", "save_page", "get_recent_pages", "build_site">>)
       \/ IsPrefix(calls, <<"get_page", "get_recent_pages", "build_site">>)
    /\ pc = "done" =>
          /\ Len(calls) >= 3
          /\ Last(calls) = "build_site"
          /\ calls[Len(calls) - 1] = "get_recent_pages"
          /\ files[IndexFilename].kind = "index"
          /\ Len(files[IndexFilename].items) = Len(pages)
          /\ \A i \in 1..Len(pages) :
                /\ files[IndexFilename].items[i] = IndexItem(pages[i])
                /\ \E r \in store : pages[i] = PageOfRow(r)

\* a run whose parse failed went on to write an index of the two stored rows
C2_Witness ==
    /\ pc = "done"
    /\ exc = "AttributeError"
    /\ calls = <<"get_page", "get_recent_pages", "build_site">>
    /\ Len(files[IndexFilename].items) = 2

\* C3: after a run on a well-formed message whose id was not stored and
\* whose Date is inside the window, the record is in the table, its file
\* holds the body, and index.html links to the file with the subject and the
\* sender's display name.
C3_IngestThenRender ==
    \A id \in SampleMessageIds, d \in GoodDates :
        ( /\ pc = "done"
          /\ stdin = WellFormedMessage(id, d)
          /\ \A r \in store0 : r.id # id
          /\ parsedate_to_datetime(d) * TicksPerSecond
                 > now - days * SecondsPerDay * TicksPerSecond )
        => /\ \E r \in store : r.id = id /\ r.body = JoinLines(BodyLines)
           /\ Filename(id) \in DOMAIN files
           /\ files[Filename(id)].kind = "page"
           /\ files[Filename(id)].text = JoinLines(BodyLines)
           /\ \E k \in 1..Len(files[IndexFilename].items) :
                 /\ files[IndexFilename].items[k].href = <<".", "/">> \o Filename(id)
                 /\ files[IndexFilename].items[k].title = <<"Hello">>
                 /\ files[IndexFilename].items[k].sender = <<"Alice">>

\* C7: a message whose Date header is missing or is no date is parsed all
\* the same, its timestamp being the current time.
C7_BadDateNeverFailsParse ==
    \A id \in SampleMessageIds, d \in { <<>>, << Line("Date", <<"not a date">>) >> } :
        ( /\ calls # <<>> /\ Last(calls) = "get_page"
          /\ stdin = Message(<<>>, << MessageIdLine(id) >>, d, << Line("Content-Type", PlainUtf8) >>) )
        => /\ exc = NoExc
           /\ page.id = id
           /\ page.date \in ClockValues
           /\ page.date <= now

====
